---- MODULE Spec2Model ----
(***************************************************************************)
(* Model of the Tardis HTTP client                                         *)
(*   src/nautilus_core/adapters/tardis/src/http/client.rs                  *)
(*   src/nautilus_core/adapters/tardis/src/http/query.rs                   *)
(*                                                                         *)
(* A text (Rust String / &str) is a sequence of tokens.  A token is either *)
(* one punctuation character ("{", ":", ...) or an opaque atom standing    *)
(* for a run of unreserved characters ("BTC", "baseCurrency", ...).        *)
(* An Option<T> is a sequence of length 0 (None) or 1 (Some(v)).           *)
(***************************************************************************)
EXTENDS Integers, Sequences, FiniteSets, TLC

VARIABLES
    filterArg,   \* query.rs: the InstrumentFilter value handed to the serializer
    filterOut,   \* Option: the JSON object serde emitted for filterArg
    env,         \* the TARDIS_API_KEY environment variable
    client,      \* Option<TardisHttpClient>: the constructed client, if any
    newCall,     \* the arguments and outcome of the last TardisHttpClient::new
    netUsed,     \* whether any HTTP request was ever sent
    calls        \* per caller: the state of its invocation in flight

vars == <<filterArg, filterOut, env, client, newCall, netUsed, calls>>

(***************************************************************************)
(* Bounds of the model.                                                    *)
(***************************************************************************)
MaxVecLen == 1      \* longest Vec<String> held by a filter field
MaxRecords == 3     \* most raw records in one response array
NumCalls == 2       \* concurrent callers of one client (SpecConc)

(***************************************************************************)
(* Options, texts.                                                         *)
(***************************************************************************)
None == <<>>
Some(v) == <<v>>
IsSome(o) == Len(o) = 1
IsNone(o) == Len(o) = 0
Unwrap(o) == o[1]

Q == "\""

SeqsUpTo(S, n) == UNION {[1..k -> S] : k \in 0..n}

RECURSIVE Concat(_)
Concat(ss) == IF ss = <<>> THEN <<>> ELSE Head(ss) \o Concat(Tail(ss))

\* sep-joined concatenation of a sequence of texts
RECURSIVE Join(_, _)
Join(ss, sep) ==
    IF ss = <<>> THEN <<>>
    ELSE IF Len(ss) = 1 THEN Head(ss)
    ELSE Head(ss) \o <<sep>> \o Join(Tail(ss), sep)

(***************************************************************************)
(* query.rs: InstrumentFilter and its derived Serialize.                   *)
(***************************************************************************)
FilterFields ==
    <<"base_currency", "quote_currency", "instrument_type", "contract_type", "active">>

DefaultFilter ==
    [base_currency |-> None, quote_currency |-> None, instrument_type |-> None,
     contract_type |-> None, active |-> None]

\* #[serde(rename_all = "camelCase")]
CamelCase(field) ==
    CASE field = "base_currency" -> "baseCurrency"
      [] field = "quote_currency" -> "quoteCurrency"
      [] field = "instrument_type" -> "instrumentType"
      [] field = "contract_type" -> "contractType"
      [] field = "active" -> "active"

\* #[serde(rename = "type")] on instrument_type overrides rename_all
ExternalName(field) ==
    IF field = "instrument_type" THEN "type" ELSE CamelCase(field)

\* JSON text of a Vec<String>
JsonStrings(v) ==
    <<"[">> \o Join([i \in 1..Len(v) |-> <<Q, v[i], Q>>], ",") \o <<"]">>

JsonBool(b) == IF b THEN <<"true">> ELSE <<"false">>

\* JSON text of an Option field's value, were it emitted
JsonField(field, opt) ==
    IF IsNone(opt) THEN <<"null">>
    ELSE IF field = "active" THEN JsonBool(Unwrap(opt))
    ELSE JsonStrings(Unwrap(opt))

\* faulty variant: skip_serializing_if dropped from `active`
SerializeFieldNoSkipActive(f, field) ==
    IF IsNone(f[field]) /\ field # "active" THEN <<>>
    ELSE <<[key |-> ExternalName(field), val |-> JsonField(field, f[field])]>>

\* #[serde(skip_serializing_if = "Option::is_none")]: zero or one member
SerializeField(f, field) ==
    IF IsNone(f[field]) THEN <<>>
    ELSE <<[key |-> ExternalName(field), val |-> JsonField(field, f[field])]>>

\* the members of the JSON object, in declaration order
SerializeFilter(f) ==
    Concat([i \in 1..Len(FilterFields) |-> SerializeField(f, FilterFields[i])])

\* serde_json::to_string of the object
ToJsonString(members) ==
    <<"{">>
    \o Join([i \in 1..Len(members) |->
                <<Q, members[i].key, Q, ":">> \o members[i].val], ",")
    \o <<"}">>

\* urlencoding::encode: every byte outside [A-Za-z0-9-_.~] becomes %XX
UrlEncodeToken(t) ==
    CASE t = "{" -> "%7B"
      [] t = "}" -> "%7D"
      [] t = "[" -> "%5B"
      [] t = "]" -> "%5D"
      [] t = Q   -> "%22"
      [] t = ":" -> "%3A"
      [] t = "," -> "%2C"
      [] OTHER   -> t

UrlEncode(text) == [i \in 1..Len(text) |-> UrlEncodeToken(text[i])]

(***************************************************************************)
(* Response bodies.  The wire types (error.rs TardisErrorResponse,         *)
(* models.rs InstrumentInfo) and parse.rs are not part of the sources at   *)
(* hand; their decoders are modelled after the interface description.      *)
(***************************************************************************)
\* raw instrument records that decode as InstrumentInfo
DecodableRecords == {"rec_spot", "rec_multi", "rec_unsupported"}
\* a JSON object that lacks required InstrumentInfo fields
UndecodableRecord == "rec_undecodable"

ErrorCodes == {0, 1}
ErrorMessages == {"quota exceeded"}

CodeToken(n) == CASE n = 0 -> "0" [] n = 1 -> "1" [] n = 2 -> "2" [] OTHER -> "9"
ParseInt(t) == CASE t = "0" -> 0 [] t = "1" -> 1 [] t = "2" -> 2 [] OTHER -> 9
DigitTokens == {"0", "1", "2", "9"}
PunctTokens == {"{", "}", "[", "]", Q, ":", ","}

\* {"code":<n>,"message":"<m>"}
ErrorBody(code, msg) ==
    <<"{", Q, "code", Q, ":", CodeToken(code), ",", Q, "message", Q, ":", Q, msg, Q, "}">>

\* [r1,r2,...]
ArrayBody(items) ==
    <<"[">> \o Join([i \in 1..Len(items) |-> <<items[i]>>], ",") \o <<"]">>

\* serde_json::from_str::<TardisErrorResponse>
ParseTardisErrorResponse(text) ==
    IF /\ Len(text) = 15
       /\ SubSeq(text, 1, 5) = <<"{", Q, "code", Q, ":">>
       /\ text[6] \in DigitTokens
       /\ SubSeq(text, 7, 12) = <<",", Q, "message", Q, ":", Q>>
       /\ text[13] \notin PunctTokens
       /\ SubSeq(text, 14, 15) = <<Q, "}">>
    THEN Some([code |-> ParseInt(text[6]), message |-> <<text[13]>>])
    ELSE None

\* serde_json::from_str::<Vec<InstrumentInfo>>
ParseInstrumentInfoVec(text) ==
    IF Len(text) >= 2 /\ text[1] = "[" /\ text[Len(text)] = "]"
    THEN LET inner == SubSeq(text, 2, Len(text) - 1)
             n == (Len(inner) + 1) \div 2
         IN  IF inner = <<>> THEN Some(<<>>)
             ELSE IF /\ Len(inner) % 2 = 1
                     /\ \A i \in 1..Len(inner) :
                          IF i % 2 = 1 THEN inner[i] \in DecodableRecords
                                       ELSE inner[i] = ","
                  THEN Some([i \in 1..n |-> inner[2 * i - 1]])
                  ELSE None
    ELSE None

\* serde_json::from_str::<InstrumentInfo>
ParseInstrumentInfo(text) ==
    IF Len(text) = 1 /\ text[1] \in DecodableRecords THEN Some(text[1]) ELSE None

Instrument(info, part, normalize) ==
    [raw |-> info, part |-> part,
     symbol |-> IF normalize THEN "normalized" ELSE "native"]

\* parse.rs parse_instrument_any: zero or more instruments per raw record
ParseInstrumentAny(info, normalize) ==
    CASE info = "rec_spot" -> <<Instrument(info, 1, normalize)>>
      [] info = "rec_multi" -> <<Instrument(info, 1, normalize), Instrument(info, 2, normalize)>>
      [] OTHER -> <<>>

(***************************************************************************)
(* client.rs: results.                                                      *)
(***************************************************************************)
NoResult ==
    [kind |-> "None", status |-> 0, code |-> 0, message |-> <<>>, cause |-> "none",
     infos |-> <<>>, instruments |-> <<>>]

\* Err(Error::ApiError { status, code, message })
ApiError(status, code, message) ==
    [NoResult EXCEPT !.kind = "ApiError", !.status = status, !.code = code,
                     !.message = message]

\* Err(Error::Request(e)), the `?` on a reqwest::Error
RequestError(cause) == [NoResult EXCEPT !.kind = "Request", !.cause = cause]

\* Err(Error::ResponseParse(e.to_string()))
ResponseParse == [NoResult EXCEPT !.kind = "ResponseParse"]

OkInfos(infos) == [NoResult EXCEPT !.kind = "Ok", !.infos = infos]
OkInstruments(insts) == [NoResult EXCEPT !.kind = "Ok", !.instruments = insts]

\* reqwest StatusCode::is_success
IsSuccess(status) == status >= 200 /\ status <= 299

\* faulty variant: the structured payload is ignored
HandleErrorResponseRawOnly(status, textResult) ==
    LET error_text == IF IsSome(textResult) THEN Unwrap(textResult) ELSE <<>>
    IN  ApiError(status, 0, error_text)

\* faulty variant: a body that is unreadable or no structured error is propagated
HandleErrorResponsePropagate(status, textResult) ==
    IF IsNone(textResult) THEN RequestError("decode")
    ELSE LET error == ParseTardisErrorResponse(Unwrap(textResult))
         IN  IF IsSome(error)
             THEN ApiError(status, Unwrap(error).code, Unwrap(error).message)
             ELSE ResponseParse

\* handle_error_response: textResult is the Result of resp.text().await
HandleErrorResponse(status, textResult) ==
    LET error_text == IF IsSome(textResult) THEN Unwrap(textResult) ELSE <<>>
        error == ParseTardisErrorResponse(error_text)
    IN  IF IsSome(error)
        THEN ApiError(status, Unwrap(error).code, Unwrap(error).message)
        ELSE ApiError(status, 0, error_text)

IsListOp(op) == op \in {"instruments_info", "instruments"}

\* faulty variant: a body of the wrong shape decodes to the default value
DecodeBodyLenient(op, body) ==
    IF IsListOp(op)
    THEN LET parsed == ParseInstrumentInfoVec(body)
         IN  IF IsSome(parsed) THEN OkInfos(Unwrap(parsed)) ELSE OkInfos(<<>>)
    ELSE LET parsed == ParseInstrumentInfo(body)
         IN  IF IsSome(parsed) THEN OkInfos(<<Unwrap(parsed)>>) ELSE OkInfos(<<>>)

\* instruments_info / instrument_info: match serde_json::from_str(&body)
DecodeBody(op, body) ==
    IF IsListOp(op)
    THEN LET parsed == ParseInstrumentInfoVec(body)
         IN  IF IsSome(parsed) THEN OkInfos(Unwrap(parsed)) ELSE ResponseParse
    ELSE LET parsed == ParseInstrumentInfo(body)
         IN  IF IsSome(parsed) THEN OkInfos(<<Unwrap(parsed)>>) ELSE ResponseParse

\* faulty variant: normalization stops at the first record that yields nothing
RECURSIVE NormalizeAllAbort(_, _)
NormalizeAllAbort(infos, normalize) ==
    IF infos = <<>> THEN <<>>
    ELSE IF ParseInstrumentAny(Head(infos), normalize) = <<>> THEN <<>>
    ELSE ParseInstrumentAny(Head(infos), normalize)
            \o NormalizeAllAbort(Tail(infos), normalize)

\* instruments: response.into_iter().flat_map(parse_instrument_any).collect()
RECURSIVE NormalizeAll(_, _)
NormalizeAll(infos, normalize) ==
    IF infos = <<>> THEN <<>>
    ELSE ParseInstrumentAny(Head(infos), normalize)
            \o NormalizeAll(Tail(infos), normalize)

\* instruments / instrument: `?` on the info call, then normalization
Wrap(op, info_result, normalize) ==
    IF op \in {"instruments_info", "instrument_info"} THEN info_result
    ELSE IF info_result.kind # "Ok" THEN info_result
    ELSE IF op = "instruments"
         THEN OkInstruments(NormalizeAll(info_result.infos, normalize))
         ELSE OkInstruments(ParseInstrumentAny(info_result.infos[1], normalize))

(***************************************************************************)
(* client.rs: construction.                                                *)
(***************************************************************************)
\* mod.rs TARDIS_BASE_URL
TARDIS_BASE_URL == <<"https://api.tardis.dev/v1">>

DefaultTimeoutSecs == 60

EnvUnset == [state |-> "unset", value |-> ""]
EnvNotUnicode == [state |-> "not_unicode", value |-> ""]
EnvSet(v) == [state |-> "set", value |-> v]

\* std::env::var("TARDIS_API_KEY"): Ok only for a set, valid-unicode value
EnvVar(e) == IF e.state = "set" THEN Some(e.value) ELSE None

\* faulty variant: env::var(..).unwrap_or_default()
ResolveApiKeyOrEmpty(api_key, e) ==
    IF IsSome(api_key) THEN api_key
    ELSE IF IsSome(EnvVar(e)) THEN EnvVar(e) ELSE Some("")

\* new: match api_key { Some(key) => key, None => env::var(..).map_err(..)? }
ResolveApiKey(api_key, e) ==
    IF IsSome(api_key) THEN api_key ELSE EnvVar(e)

NoNewCall == [api_key |-> None, result |-> "none"]

\* TardisHttpClient::new; build_ok is the outcome of reqwest's builder
New(api_key, base_url, timeout_secs, normalize_symbols, build_ok) ==
    /\ IsNone(client)
    /\ LET key == ResolveApiKey(api_key, env)
       IN  IF IsNone(key)
           THEN /\ client' = None
                /\ newCall' = [api_key |-> api_key, result |-> "ConfigError"]
           ELSE IF ~build_ok
           THEN /\ client' = None
                /\ newCall' = [api_key |-> api_key, result |-> "BuildError"]
           ELSE /\ client' = Some(
                      [base_url |-> IF IsSome(base_url) THEN Unwrap(base_url)
                                                        ELSE TARDIS_BASE_URL,
                       api_key |-> Unwrap(key),
                       timeout |-> IF IsSome(timeout_secs) THEN Unwrap(timeout_secs)
                                                           ELSE DefaultTimeoutSecs,
                       normalize_symbols |-> normalize_symbols])
                /\ newCall' = [api_key |-> api_key, result |-> "Ok"]
    /\ UNCHANGED <<filterArg, filterOut, env, netUsed, calls>>

(***************************************************************************)
(* client.rs: the four public calls.  A call suspends at send().await and  *)
(* at text().await; the code between two suspensions is one step.          *)
(***************************************************************************)
Calls == 1..NumCalls

IdleCall ==
    [pc |-> "idle", op |-> "none", exchange |-> "", filter |-> None, symbol |-> "",
     url |-> <<>>, auth |-> "", sent |-> 0, status |-> 0, text |-> None,
     fault |-> "none", result |-> NoResult]

\* faulty variant: a filter that serializes to the empty object is left out of the URL
ListUrlOmitEmpty(base_url, exchange, filter) ==
    base_url \o <<"/instruments/", exchange>>
    \o (IF IsSome(filter) /\ SerializeFilter(Unwrap(filter)) # <<>>
        THEN <<"?filter=">> \o UrlEncode(ToJsonString(SerializeFilter(Unwrap(filter))))
        ELSE <<>>)

\* instruments_info: the request URL
ListUrl(base_url, exchange, filter) ==
    base_url \o <<"/instruments/", exchange>>
    \o (IF IsSome(filter)
        THEN <<"?filter=">> \o UrlEncode(ToJsonString(SerializeFilter(Unwrap(filter))))
        ELSE <<>>)

\* instrument_info: the request URL
SingleUrl(base_url, exchange, symbol) ==
    base_url \o <<"/instruments/", exchange, "/", symbol>>

\* faulty variant: the URL is kept in a buffer shared by the calls in flight
SendListShared(c, op, exchange, filter) ==
    /\ IsSome(client)
    /\ calls[c].pc = "idle"
    /\ LET busy == {d \in Calls : calls[d].pc # "idle" /\ IsListOp(calls[d].op)}
           url == IF busy # {}
                  THEN calls[CHOOSE d \in busy : TRUE].url
                  ELSE ListUrl(Unwrap(client).base_url, exchange, filter)
       IN  calls' = [calls EXCEPT ![c] =
                [IdleCall EXCEPT !.pc = "awaitResponse", !.op = op,
                                 !.exchange = exchange, !.filter = filter,
                                 !.url = url,
                                 !.auth = Unwrap(client).api_key,
                                 !.sent = calls[c].sent + 1]]
    /\ netUsed' = TRUE
    /\ UNCHANGED <<filterArg, filterOut, env, client, newCall>>

\* instruments_info (op = "instruments_info") or instruments calling it
\* (op = "instruments"), up to send().await
SendList(c, op, exchange, filter) ==
    /\ IsSome(client)
    /\ calls[c].pc = "idle"
    /\ calls' = [calls EXCEPT ![c] =
            [IdleCall EXCEPT !.pc = "awaitResponse", !.op = op,
                             !.exchange = exchange, !.filter = filter,
                             !.url = ListUrl(Unwrap(client).base_url, exchange, filter),
                             !.auth = Unwrap(client).api_key,
                             !.sent = calls[c].sent + 1]]
    /\ netUsed' = TRUE
    /\ UNCHANGED <<filterArg, filterOut, env, client, newCall>>

\* instrument_info (op = "instrument_info") or instrument calling it
\* (op = "instrument"), up to send().await
SendSingle(c, op, exchange, symbol) ==
    /\ IsSome(client)
    /\ calls[c].pc = "idle"
    /\ calls' = [calls EXCEPT ![c] =
            [IdleCall EXCEPT !.pc = "awaitResponse", !.op = op,
                             !.exchange = exchange, !.symbol = symbol,
                             !.url = SingleUrl(Unwrap(client).base_url, exchange, symbol),
                             !.auth = Unwrap(client).api_key,
                             !.sent = calls[c].sent + 1]]
    /\ netUsed' = TRUE
    /\ UNCHANGED <<filterArg, filterOut, env, client, newCall>>

\* faulty variant: a failed send is retried once
SendErrorRetry(c, cause) ==
    /\ calls[c].pc = "awaitResponse"
    /\ calls' = [calls EXCEPT ![c] =
            IF calls[c].sent < 2
            THEN [@ EXCEPT !.sent = @ + 1]
            ELSE [@ EXCEPT !.pc = "done", !.fault = cause,
                           !.result = RequestError(cause)]]
    /\ UNCHANGED <<filterArg, filterOut, env, client, newCall, netUsed>>

\* send().await? fails: no response was obtained (connection failure or timeout)
SendError(c, cause) ==
    /\ calls[c].pc = "awaitResponse"
    /\ calls' = [calls EXCEPT ![c] =
            [@ EXCEPT !.pc = "done", !.fault = cause, !.result = RequestError(cause)]]
    /\ UNCHANGED <<filterArg, filterOut, env, client, newCall, netUsed>>

\* send().await? yields a response: branch on resp.status().is_success()
RecvStatus(c, status) ==
    /\ calls[c].pc = "awaitResponse"
    /\ calls' = [calls EXCEPT ![c] =
            [@ EXCEPT !.status = status,
                      !.pc = IF IsSuccess(status) THEN "awaitBody" ELSE "awaitErrorBody"]]
    /\ UNCHANGED <<filterArg, filterOut, env, client, newCall, netUsed>>

\* faulty variant: an unreadable success body is taken as the empty text
FinishSwallow(op, normalize, status, textResult, cause) ==
    IF ~IsSuccess(status) THEN HandleErrorResponse(status, textResult)
    ELSE Wrap(op, DecodeBody(op, IF IsSome(textResult) THEN Unwrap(textResult) ELSE <<>>),
              normalize)

\* the outcome of a call once resp.text().await has resolved to textResult
Finish(op, normalize, status, textResult, cause) ==
    IF ~IsSuccess(status) THEN HandleErrorResponse(status, textResult)
    ELSE IF IsNone(textResult) THEN RequestError(cause)
    ELSE Wrap(op, DecodeBody(op, Unwrap(textResult)), normalize)

\* resp.text().await yields the body
RecvBody(c, body) ==
    /\ calls[c].pc \in {"awaitBody", "awaitErrorBody"}
    /\ calls' = [calls EXCEPT ![c] =
            [@ EXCEPT !.pc = "done", !.text = Some(body),
                      !.result = Finish(calls[c].op, Unwrap(client).normalize_symbols,
                                        calls[c].status, Some(body), "none")]]
    /\ UNCHANGED <<filterArg, filterOut, env, client, newCall, netUsed>>

\* resp.text().await fails (the timeout expires, or the body cannot be decoded)
BodyError(c, cause) ==
    /\ calls[c].pc \in {"awaitBody", "awaitErrorBody"}
    /\ calls' = [calls EXCEPT ![c] =
            [@ EXCEPT !.pc = "done", !.fault = cause,
                      !.result = Finish(calls[c].op, Unwrap(client).normalize_symbols,
                                        calls[c].status, None, cause)]]
    /\ UNCHANGED <<filterArg, filterOut, env, client, newCall, netUsed>>

\* the caller takes the result; the caller may call again
Return(c) ==
    /\ calls[c].pc = "done"
    /\ calls' = [calls EXCEPT ![c] = IdleCall]
    /\ UNCHANGED <<filterArg, filterOut, env, client, newCall, netUsed>>

\* serde_json::to_string(filter) applied to filterArg
Serialize ==
    /\ IsNone(filterOut)
    /\ filterOut' = Some(SerializeFilter(filterArg))
    /\ UNCHANGED <<filterArg, env, client, newCall, netUsed, calls>>

(***************************************************************************)
(* Inputs.                                                                 *)
(***************************************************************************)
Currencies == {"BTC", "ETH"}
OptVecs == {None} \cup {Some(v) : v \in SeqsUpTo(Currencies, MaxVecLen)}
OptBools == {None, Some(TRUE), Some(FALSE)}

\* every InstrumentFilter over the bounded field values
Filters ==
    [base_currency : OptVecs, quote_currency : OptVecs, instrument_type : OptVecs,
     contract_type : OptVecs, active : OptBools]

EnvStates == {EnvUnset, EnvNotUnicode, EnvSet("key_env")}
ApiKeyArgs == {None, Some("key_arg")}
BaseUrlArgs == {None, Some(<<"http://localhost:8080">>)}
TimeoutArgs == {None, Some(5)}

ListOps == {"instruments_info", "instruments"}
SingleOps == {"instrument_info", "instrument"}
Exchanges == {"binance", "deribit"}
Symbols == {"BTCUSDT"}

SomeFilter ==
    [DefaultFilter EXCEPT !.base_currency = Some(<<"BTC">>), !.active = Some(TRUE)]
CallFilters == {None, Some(DefaultFilter), Some(SomeFilter)}

Statuses == {200, 404, 500}
SendFaults == {"connect", "timeout"}
BodyFaults == {"timeout", "decode"}

ArrayBodies == {ArrayBody(items) : items \in SeqsUpTo(DecodableRecords, MaxRecords)}
RecordBodies == {<<r>> : r \in DecodableRecords \cup {UndecodableRecord}}
ErrorBodies == {ErrorBody(code, msg) : code \in ErrorCodes, msg \in ErrorMessages}
\* empty, plain text, JSON of another shape, truncated JSON, an array holding
\* a record that does not decode
OtherBodies ==
    {<<>>, <<"Bad Gateway">>, <<"{", "}">>, <<"[", "rec_spot">>,
     ArrayBody(<<"rec_spot", UndecodableRecord>>)}
Bodies == ArrayBodies \cup RecordBodies \cup ErrorBodies \cup OtherBodies

\* the inputs of the concurrent specification
ConcFilters == {None, Some(SomeFilter)}
ConcStatuses == {200, 404}
ConcBodies ==
    {ArrayBody(<<"rec_spot", "rec_unsupported">>), <<"rec_multi">>,
     ErrorBody(1, "quota exceeded")}

(***************************************************************************)
(* Specifications.                                                         *)
(***************************************************************************)
InitCommon ==
    /\ filterOut = None
    /\ client = None
    /\ newCall = NoNewCall
    /\ netUsed = FALSE
    /\ calls = [c \in Calls |-> IdleCall]

\* one caller using the client, one call after another
Init ==
    /\ filterArg = DefaultFilter
    /\ env \in EnvStates
    /\ InitCommon

Next ==
    \/ \E k \in ApiKeyArgs, b \in BaseUrlArgs, t \in TimeoutArgs,
          n \in BOOLEAN, ok \in BOOLEAN : New(k, b, t, n, ok)
    \/ \E op \in ListOps, e \in Exchanges, f \in CallFilters : SendList(1, op, e, f)
    \/ \E op \in SingleOps, e \in Exchanges, s \in Symbols : SendSingle(1, op, e, s)
    \/ \E cause \in SendFaults : SendError(1, cause)
    \/ \E status \in Statuses : RecvStatus(1, status)
    \/ \E body \in Bodies : RecvBody(1, body)
    \/ \E cause \in BodyFaults : BodyError(1, cause)
    \/ Return(1)

Spec == Init /\ [][Next]_vars

\* NumCalls callers using one client concurrently
InitConc ==
    /\ filterArg = DefaultFilter
    /\ env = EnvUnset
    /\ InitCommon

NextConc ==
    \/ New(Some("key_arg"), None, None, TRUE, TRUE)
    \/ \E c \in Calls, op \in ListOps, f \in ConcFilters : SendList(c, op, "binance", f)
    \/ \E c \in Calls, op \in SingleOps, s \in Symbols : SendSingle(c, op, "binance", s)
    \/ \E c \in Calls : SendError(c, "timeout")
    \/ \E c \in Calls, status \in ConcStatuses : RecvStatus(c, status)
    \/ \E c \in Calls, body \in ConcBodies : RecvBody(c, body)
    \/ \E c \in Calls : BodyError(c, "timeout")
    \/ \E c \in Calls : Return(c)

SpecConc == InitConc /\ [][NextConc]_vars

\* the serializer applied to every filter value
InitFilter ==
    /\ filterArg \in Filters
    /\ env = EnvUnset
    /\ InitCommon

NextFilter == Serialize

SpecFilter == InitFilter /\ [][NextFilter]_vars

(***************************************************************************)
(* Properties.                                                             *)
(***************************************************************************)
Done(c) == calls[c].pc = "done"
Started(c) == calls[c].pc # "idle"

\* the wire names the provider expects
WireName(field) ==
    CASE field = "base_currency" -> "baseCurrency"
      [] field = "quote_currency" -> "quoteCurrency"
      [] field = "instrument_type" -> "type"
      [] field = "contract_type" -> "contractType"
      [] field = "active" -> "active"

SetFields(f) == {field \in DOMAIN f : IsSome(f[field])}

\* C1: the serialized filter holds exactly the keys of the set fields, under
\* their wire names, each once, and no member is null.
C1_SerializedKeys ==
    IsSome(filterOut) =>
        LET members == Unwrap(filterOut)
        IN  /\ {members[i].key : i \in 1..Len(members)}
                 = {WireName(field) : field \in SetFields(filterArg)}
            /\ Len(members) = Cardinality(SetFields(filterArg))
            /\ \A i \in 1..Len(members) : members[i].val # <<"null">>

C1_Witness ==
    /\ IsSome(filterOut)
    /\ SetFields(filterArg) = {"instrument_type", "contract_type"}
    /\ Len(Unwrap(filterOut)) = 2

AllUnset(f) == SetFields(f) = {}
BareListUrl(c) == Unwrap(client).base_url \o <<"/instruments/", calls[c].exchange>>

\* C2 as stated: a filter with every field unset leaves the URL without a
\* filter parameter.
C2_NoFilterParam ==
    \A c \in Calls :
        (Started(c) /\ IsListOp(calls[c].op)
            /\ IsSome(calls[c].filter) /\ AllUnset(Unwrap(calls[c].filter)))
        => calls[c].url = BareListUrl(c)

\* C2 amended: without a filter argument the URL is {base}/instruments/{exchange};
\* with a filter whose fields are all unset it is that URL followed by
\* ?filter=%7B%7D, the percent-encoded empty JSON object.
C2_EmptyFilterParam ==
    \A c \in Calls :
        (Started(c) /\ IsListOp(calls[c].op)) =>
            /\ IsNone(calls[c].filter) => calls[c].url = BareListUrl(c)
            /\ (IsSome(calls[c].filter) /\ AllUnset(Unwrap(calls[c].filter)))
                 => calls[c].url = BareListUrl(c) \o <<"?filter=", "%7B", "%7D">>

C2_Witness ==
    \E c \in Calls :
        /\ Started(c) /\ calls[c].op = "instruments_info"
        /\ calls[c].filter = Some(DefaultFilter)
        /\ Len(calls[c].url) = Len(Unwrap(client).base_url) + 5

\* C3: a non-success response whose body is a structured provider error yields
\* ApiError with the response's status and the payload's code and message.
C3_StructuredError ==
    \A c \in Calls : \A code \in ErrorCodes, msg \in ErrorMessages :
        (Done(c) /\ ~IsSuccess(calls[c].status)
            /\ calls[c].text = Some(ErrorBody(code, msg)))
        => calls[c].result = ApiError(calls[c].status, code, <<msg>>)

C3_Witness ==
    \E c \in Calls :
        /\ Done(c) /\ calls[c].status = 404
        /\ calls[c].text = Some(ErrorBody(1, "quota exceeded"))
        /\ calls[c].result.kind = "ApiError" /\ calls[c].result.code = 1

\* C4: a non-success response whose body is no structured provider error, or
\* cannot be read, yields ApiError with the response's status, code 0 and the
\* raw body text (empty when unreadable); never another kind of error.
C4_OpaqueError ==
    \A c \in Calls :
        (Done(c) /\ calls[c].status # 0 /\ ~IsSuccess(calls[c].status)
            /\ (IsNone(calls[c].text) \/ Unwrap(calls[c].text) \notin ErrorBodies))
        => calls[c].result =
              ApiError(calls[c].status, 0,
                       IF IsSome(calls[c].text) THEN Unwrap(calls[c].text) ELSE <<>>)

C4_Witness ==
    \E c \in Calls :
        /\ Done(c) /\ calls[c].status = 500
        /\ calls[c].text = Some(<<"Bad Gateway">>)
        /\ calls[c].result.kind = "ApiError"
        /\ calls[c].result.message = <<"Bad Gateway">>

\* the bodies of the shape a call expects
ExpectedShape(op) ==
    IF IsListOp(op) THEN ArrayBodies ELSE {<<r>> : r \in DecodableRecords}

\* C5: a success response whose body is not of the expected shape yields
\* ResponseParse, with no record and no instrument, for all four calls.
C5_ParseError ==
    \A c \in Calls :
        (Done(c) /\ IsSuccess(calls[c].status) /\ IsSome(calls[c].text)
            /\ Unwrap(calls[c].text) \notin ExpectedShape(calls[c].op))
        => /\ calls[c].result.kind = "ResponseParse"
           /\ calls[c].result.infos = <<>>
           /\ calls[c].result.instruments = <<>>

C5_Witness ==
    \E c \in Calls :
        /\ Done(c) /\ calls[c].op = "instruments" /\ calls[c].status = 200
        /\ calls[c].text = Some(<<"[", "rec_spot">>)
        /\ calls[c].result.kind = "ResponseParse"

\* C6: construction without a credential while the environment variable is
\* unset fails with a configuration error; no client exists and no request
\* was sent.
C6_NoCredential ==
    (newCall.result # "none" /\ IsNone(newCall.api_key) /\ env = EnvUnset)
    => /\ newCall.result = "ConfigError"
       /\ IsNone(client)
       /\ ~netUsed
       /\ \A c \in Calls : calls[c] = IdleCall

C6_Witness ==
    /\ newCall.result = "ConfigError"
    /\ IsNone(newCall.api_key)
    /\ env = EnvUnset

RemoveAt(s, i) == SubSeq(s, 1, i - 1) \o SubSeq(s, i + 1, Len(s))
Unnormalizable(items, normalize) ==
    {i \in 1..Len(items) : ParseInstrumentAny(items[i], normalize) = <<>>}
OutputsOf(items, normalize) ==
    Concat([i \in 1..Len(items) |-> ParseInstrumentAny(items[i], normalize)])

\* C7: when one record of a successful response cannot be normalized,
\* instruments returns the outputs of the other records, in response order.
C7_DropMalformed ==
    \A c \in Calls : \A items \in SeqsUpTo(DecodableRecords, MaxRecords) :
        (Done(c) /\ calls[c].op = "instruments" /\ IsSuccess(calls[c].status)
            /\ calls[c].text = Some(ArrayBody(items)))
        => LET normalize == Unwrap(client).normalize_symbols
               bad == Unnormalizable(items, normalize)
           IN  Cardinality(bad) = 1 =>
                 /\ calls[c].result.kind = "Ok"
                 /\ calls[c].result.instruments =
                      OutputsOf(RemoveAt(items, CHOOSE i \in bad : TRUE), normalize)

C7_Witness ==
    \E c \in Calls :
        /\ Done(c) /\ calls[c].op = "instruments" /\ calls[c].status = 200
        /\ calls[c].text = Some(ArrayBody(<<"rec_spot", "rec_unsupported", "rec_multi">>))
        /\ calls[c].result.kind = "Ok"
        /\ Len(calls[c].result.instruments) = 3

\* C8: an invocation has sent exactly one request from its start to its end,
\* whatever its outcome, and holds no result without having sent it.
C8_OneRequest ==
    \A c \in Calls :
        /\ Started(c) => calls[c].sent = 1
        /\ ~Started(c) => calls[c].sent = 0 /\ calls[c].result.kind = "None"
        /\ Done(c) <=> calls[c].result.kind # "None"

C8_Witness ==
    \E c \in Calls :
        /\ Done(c) /\ calls[c].result = RequestError("connect") /\ calls[c].sent = 1

\* C9 as stated: a timeout at any point of a call yields a transport failure.
C9_TimeoutIsTransport ==
    \A c \in Calls :
        (Done(c) /\ calls[c].fault = "timeout") => calls[c].result.kind = "Request"

\* C9 amended: a timeout before the status is received, or while the body of
\* a success response is read, yields a transport failure; a timeout while
\* the body of a non-success response is read yields ApiError with the
\* response's status, code 0 and an empty message.
C9_TimeoutOutcome ==
    \A c \in Calls :
        (Done(c) /\ calls[c].fault = "timeout") =>
            IF calls[c].status = 0 \/ IsSuccess(calls[c].status)
            THEN calls[c].result = RequestError("timeout")
            ELSE calls[c].result = ApiError(calls[c].status, 0, <<>>)

C9_Witness ==
    \E c \in Calls :
        /\ Done(c) /\ calls[c].fault = "timeout" /\ calls[c].status = 200
        /\ calls[c].result.kind = "Request"

\* a call's URL and result as its own arguments, the configuration and its
\* own response decide them
OwnUrl(c) ==
    IF IsListOp(calls[c].op)
    THEN ListUrl(Unwrap(client).base_url, calls[c].exchange, calls[c].filter)
    ELSE SingleUrl(Unwrap(client).base_url, calls[c].exchange, calls[c].symbol)

OwnResult(c) ==
    IF calls[c].status = 0 THEN RequestError(calls[c].fault)
    ELSE Finish(calls[c].op, Unwrap(client).normalize_symbols, calls[c].status,
                calls[c].text, calls[c].fault)

SameArgs(c, d) ==
    /\ calls[c].op = calls[d].op /\ calls[c].exchange = calls[d].exchange
    /\ calls[c].filter = calls[d].filter /\ calls[c].symbol = calls[d].symbol

SameResponse(c, d) ==
    /\ calls[c].status = calls[d].status /\ calls[c].text = calls[d].text
    /\ calls[c].fault = calls[d].fault

CallsIndependent ==
    /\ \A c \in Calls : Started(c) =>
          /\ calls[c].url = OwnUrl(c)
          /\ calls[c].auth = Unwrap(client).api_key
          /\ Done(c) => calls[c].result = OwnResult(c)
    /\ \A c, d \in Calls : (Started(c) /\ Started(d) /\ SameArgs(c, d)) =>
          /\ calls[c].url = calls[d].url
          /\ (Done(c) /\ Done(d) /\ SameResponse(c, d))
                => calls[c].result = calls[d].result

StepIsLocal ==
    /\ IsSome(client) => client' = client
    /\ \A c \in Calls : calls'[c] # calls[c] =>
          \A d \in Calls \ {c} : calls'[d] = calls[d]

\* C10: under any interleaving, a call's URL and result are those its own
\* arguments, the configuration and its own response decide; a step of one
\* call changes neither the configuration nor another call.
C10_Isolation == []CallsIndependent /\ [][StepIsLocal]_vars

C10_Witness ==
    \E c, d \in Calls :
        /\ c # d /\ Done(c) /\ Done(d)
        /\ calls[c].op = "instruments_info" /\ calls[d].op = "instruments_info"
        /\ IsNone(calls[c].filter) /\ IsSome(calls[d].filter)
        /\ calls[c].result.kind = "Ok" /\ calls[d].result.kind = "ApiError"

====
